---------------------------- MODULE Spec2Model ----------------------------
(***************************************************************************)
(* A model of sync.py (gitlab-repo-sync): one run of main() mirrors the    *)
(* group structure, then the project structure, then fans the repository   *)
(* syncs out over a process pool.  GitLab (source and destination) and git *)
(* are modelled by what the calls sync.py makes on them do.                *)
(*                                                                         *)
(* A path "a/b/c" is the sequence <<"a","b","c">> of its segments, so      *)
(* path.split('/') and '/'.join(parts) are the identity on sequences and   *)
(* the empty string is <<>>.                                               *)
(***************************************************************************)
EXTENDS Naturals, Sequences, FiniteSets

(* ------------------------------ bounds -------------------------------- *)

\* what the environment may do to the program over a whole behaviour: calls it
\* makes fail (transport and API errors), and groups that someone else creates
\* on the destination while create_group_structure_by_path is between its
\* lookup and its create call
MaxFaults == 1
\* runs of main() in one behaviour (the cache and the destination persist)
MaxRuns == 2
\* projects under the source root group
MaxProjects == 2
\* deletions of a ref on a source repository between runs
MaxRefChanges == 1

(* --------------------------- the universe ----------------------------- *)

\* --groupid: the source root group
Root == <<"g">>

\* the groups that may exist below the root on the source
DescendantUniverse == { <<"g", "sub">>, <<"g", "excluded">>, <<"g", "sub", "deep">> }

GroupUniverse == {Root} \cup DescendantUniverse

\* 'a/b/c' => 'a/b'
ParentPath(path) == SubSeq(path, 1, Len(path) - 1)

LastPart(path) == path[Len(path)]

\* GitLab keeps every group under an existing parent group
ParentClosed(G) == \A p \in G : Len(p) > 1 => ParentPath(p) \in G

\* a project: its path_with_namespace and the path GitLab derives from its
\* display name when a project is created with a name and no path
ProjectUniverse ==
    { [path |-> <<"g", "p0">>, name |-> "p0"],
      [path |-> <<"g", "sub", "p1">>, name |-> "p1"],
      [path |-> <<"g", "sub", "p1">>, name |-> "renamed"],
      [path |-> <<"g", "excluded", "p2">>, name |-> "p2"] }

ProjectPaths == { p.path : p \in ProjectUniverse }

\* every path a destination project can get: namespace + derived path
DestProjectPaths == { Append(ParentPath(p.path), q.name) : p, q \in ProjectUniverse }

DefaultBranch == "main"

Branches == {"main", "dev", "stale"}

Tags == {"v1", "v0"}

RefNames == Branches \cup Tags

None == "None"

\* the page size of a list() call that asks for one page only (GitLab's
\* default is 20, scaled to the groups of DescendantUniverse)
PerPage == 2

VARIABLES
    \* the source instance (read only)
    srcGroups,      \* descendant groups of the root on the source
    srcProjects,    \* projects under the root (include_subgroups=True)
    srcRefs,        \* source project path -> branch and tag names of its repository
    ignore,         \* --ignore-project-paths
    cachedir,       \* --cachedir: "given", or "default" when the option is left out
    page,           \* the descendant groups on the first page of GitLab's listing
    \* the destination instance
    dstGroups,      \* full paths of the groups on the destination
    dstProjects,    \* records [path, name, desc] of the projects on the destination
    dstRefs,        \* destination project path -> branch and tag names
    \* the cache directory
    cache,          \* source project path -> "none" | "cloned" | "ready"
    localRefs,      \* source project path -> refs/remotes/origin/* and tags of the clone
    \* the run
    run,            \* number of the current run of main()
    pc,             \* where main() is
    todoGroups,     \* descendant_groups not yet iterated
    stack,          \* frames of create_group_structure_by_path, innermost last
    todoProjects,   \* projects not yet iterated by mirror_project_structure
    task,           \* source project path -> state of its sync_repo call
    \* the environment
    faults,         \* errors injected and groups created by someone else so far
    refChanges,     \* source ref deletions so far
    \* history of the current run
    runFaults,      \* those of this run
    groupCreateCalls,   \* paths dest_client.groups.create was called for
    projectCreateCalls, \* source projects dest_client.projects.create was called for
    created,        \* groups this run created
    examined,       \* descendant groups whose loop iteration has run
    absentAtExam,   \* in mirror_group_structure: those absent on the destination then
    invoked,        \* in mirror_group_structure: those the loop called
                    \* create_group_structure_by_path on
    logged,         \* paths mirror_group_structure logged an error for
    processed,      \* projects whose loop iteration has run
    syncFault,      \* source project path -> the call of its sync that was made to fail
    clones,         \* source project path -> clones made of it, over all runs
    cachedRuns,     \* source project path -> syncs that took the cached branch
    laterSyncs,     \* source project path -> syncs made of it once it was cloned
    afterError,     \* in mirror_group_structure: those examined after an error was logged
    raced,          \* in mirror_group_structure: the paths whose call of
                    \* create_group_structure_by_path met a group created by someone else
    prev            \* how the previous run ended, and the destination this run began with

vars == << srcGroups, srcProjects, srcRefs, ignore, cachedir, dstGroups, dstProjects, dstRefs,
           cache, localRefs, run, pc, todoGroups, stack, todoProjects, task,
           faults, refChanges, runFaults, groupCreateCalls, projectCreateCalls,
           created, examined, absentAtExam, invoked, logged, processed, syncFault,
           clones, cachedRuns, laterSyncs, afterError, prev, page, raced >>

srcVars == << srcGroups, srcProjects, ignore, cachedir, page >>

syncVars == << srcRefs, dstRefs, cache, localRefs, task, syncFault, clones, cachedRuns,
               laterSyncs, refChanges >>

\* a mutant of DescendantGroupsList: only the groups that hold, at some level, a
\* project that is not ignored
DescendantGroupsWithProjects(groups) ==
    { g \in groups : \E p \in srcProjects :
        /\ p.path \notin ignore
        /\ Len(p.path) > Len(g)
        /\ SubSeq(p.path, 1, Len(g)) = g }

\* lines 212-213: src_group.descendant_groups.list(), the groups below the root
\* at every level, whatever projects they hold: list() without all=True returns
\* the first page of them and no more
DescendantGroupsList(groups) == groups \cap page

(* ------------------------------- Init --------------------------------- *)

SourceTrees == { G \in SUBSET DescendantUniverse : ParentClosed(G \cup {Root}) }

DestinationTrees == { G \in SUBSET GroupUniverse : ParentClosed(G) }

\* GitLab orders the listing by the groups' display names, which the paths do
\* not fix: the first page is any PerPage of them, and all when they are fewer
FirstPages(G) ==
    { L \in SUBSET G :
        Cardinality(L) = IF Cardinality(G) < PerPage THEN Cardinality(G) ELSE PerPage }

UniquePaths(P) == \A p, q \in P : p.path = q.path => p = q

ProjectSets(G) ==
    { P \in SUBSET ProjectUniverse :
        /\ Cardinality(P) <= MaxProjects
        /\ UniquePaths(P)
        /\ \A p \in P : ParentPath(p.path) \in G \cup {Root} }

\* a destination that already holds a project at a source project's path: it was
\* made by hand, with refs of its own
ExistingProject(p) == [path |-> p.path, name |-> p.name, desc |-> "orig"]

ExistingRefs == {"stale", "v0"}

SourceRefs == {"main", "dev", "v1"}

Init ==
    /\ srcGroups \in SourceTrees
    /\ srcProjects \in ProjectSets(srcGroups)
    /\ ignore \in SUBSET { p.path : p \in srcProjects }
    /\ cachedir \in {"given", "default"}
    /\ page \in FirstPages(srcGroups)
    /\ dstGroups \in DestinationTrees
    /\ dstProjects \in SUBSET { ExistingProject(p) :
                                  p \in { q \in srcProjects : ParentPath(q.path) \in dstGroups } }
    /\ srcRefs = [p \in ProjectPaths |->
                    IF p \in { q.path : q \in srcProjects } THEN SourceRefs ELSE {}]
    /\ dstRefs = [p \in DestProjectPaths |->
                    IF p \in { q.path : q \in dstProjects } THEN ExistingRefs ELSE {}]
    /\ cache = [p \in ProjectPaths |-> "none"]
    /\ localRefs = [p \in ProjectPaths |-> {}]
    /\ run = 1
    /\ pc = "groups"
    /\ todoGroups = DescendantGroupsList(srcGroups)
    /\ stack = << >>
    /\ todoProjects = {}
    /\ task = [p \in ProjectPaths |-> "idle"]
    /\ faults = 0
    /\ refChanges = 0
    /\ raced = {}
    /\ runFaults = 0
    /\ groupCreateCalls = {}
    /\ projectCreateCalls = {}
    /\ created = {}
    /\ examined = {}
    /\ absentAtExam = {}
    /\ invoked = {}
    /\ logged = {}
    /\ processed = {}
    /\ syncFault = [p \in ProjectPaths |-> "none"]
    /\ clones = [p \in ProjectPaths |-> 0]
    /\ cachedRuns = [p \in ProjectPaths |-> 0]
    /\ laterSyncs = [p \in ProjectPaths |-> 0]
    /\ afterError = {}
    /\ prev = [ended |-> "never", clean |-> FALSE, groups |-> dstGroups,
               projects |-> dstProjects]

(* --------------------------- path lookups ----------------------------- *)

\* get_group_by_path: the group, or None when it is absent and also when the
\* lookup raised (except Exception: return None)
GetGroupByPath(groups, path, failed) ==
    IF failed \/ path \notin groups THEN None ELSE path

\* get_project_by_path: likewise for a project
GetProjectByPath(projects, path, failed) ==
    IF failed \/ path \notin { q.path : q \in projects } THEN None ELSE path

\* src_client.groups.get(path) of create_group_structure_by_path: raises when the
\* source has no such group or the call fails
SrcGroupRaises(path, failed) == failed \/ path \notin ({Root} \cup srcGroups)

\* the environment may still interfere
CanFail == faults < MaxFaults

Inject(n) ==
    /\ faults' = faults + n
    /\ runFaults' = runFaults + n

(* --------------------- create_group_structure_by_path ----------------- *)

\* an invocation: its path, where it is, and whether the group was on the
\* destination when it was called
Frame(path, at) == [path |-> path, at |-> at, existed |-> path \in dstGroups]

Top(stk) == stk[Len(stk)]

Pop(stk) == SubSeq(stk, 1, Len(stk) - 1)

SetAt(stk, at) == [stk EXCEPT ![Len(stk)].at = at]

\* line 156: the branch for a top-level group
IsTopLevel(path) == ParentPath(path) = << >> /\ Len(path) = 1

\* a mutant of ParentMissing: the parent is never materialized first
ParentMissingNever(parent_group) == FALSE

\* line 168: if not parent_group
ParentMissing(parent_group) == parent_group = None

\* the innermost invocation returns: its caller goes on.  A caller that had
\* called itself on the parent path (line 171) now calls itself on the path
\* again (line 173); one that had made that second call returns in turn.
RECURSIVE Return(_)
Return(stk) ==
    LET rest == Pop(stk) IN
    IF rest = << >> THEN << >>
    ELSE IF Top(rest).at = "parent"
         THEN Append(SetAt(rest, "again"), Frame(Top(rest).path, "enter"))
         ELSE Return(rest)

\* a mutant of AfterGroupError: the exception ends the loop
AfterGroupErrorStops(todo) == {}

\* lines 228-229: the exception is logged and the loop goes on with the
\* subgroups that are left
AfterGroupError(todo) == todo

\* an exception leaves every invocation of create_group_structure_by_path and is
\* caught by mirror_group_structure, in the iteration of the outermost path
Raise ==
    /\ stack' = << >>
    /\ logged' = logged \cup {stack[1].path}
    /\ todoGroups' = AfterGroupError(todoGroups)

topoHist == << groupCreateCalls, projectCreateCalls, created, examined, absentAtExam,
               invoked, logged, processed, afterError, raced >>

\* lines 216-226: one iteration of mirror_group_structure's loop, up to the call
\* of create_group_structure_by_path
MirrorGroupIter ==
    /\ pc = "groups"
    /\ stack = << >>
    /\ \E path \in todoGroups, failed \in {FALSE, CanFail} :
         LET group == GetGroupByPath(dstGroups, path, failed) IN
         /\ Inject(IF failed THEN 1 ELSE 0)
         /\ todoGroups' = todoGroups \ {path}
         /\ examined' = examined \cup {path}
         /\ absentAtExam' = IF path \in dstGroups THEN absentAtExam
                            ELSE absentAtExam \cup {path}
         /\ afterError' = IF logged = {} THEN afterError ELSE afterError \cup {path}
         /\ IF group # None
            THEN /\ stack' = << >>
                 /\ invoked' = invoked
            ELSE /\ stack' = << Frame(path, "enter") >>
                 /\ invoked' = invoked \cup {path}
    /\ UNCHANGED << srcVars, syncVars, dstGroups, dstProjects, run, pc, todoProjects,
                    groupCreateCalls, projectCreateCalls, created, logged, processed,
                    prev, raced >>

\* lines 151-173: an invocation up to its create call or its recursive call.
\* what: "none", or the call that fails: "src" (line 153), "dst" (line 159 or 167)
MatEnter ==
    /\ pc = "groups"
    /\ stack # << >>
    /\ Top(stack).at = "enter"
    /\ \E what \in {"none"} \cup (IF CanFail THEN {"src", "dst"} ELSE {}) :
         LET path == Top(stack).path
             parent_path == ParentPath(path)
         IN
         /\ Inject(IF what = "none" THEN 0 ELSE 1)
         /\ IF SrcGroupRaises(path, what = "src")
            THEN Raise
            ELSE /\ UNCHANGED << logged, todoGroups >>
                 /\ IF IsTopLevel(path)
                    THEN IF GetGroupByPath(dstGroups, path, what = "dst") # None
                         THEN stack' = Return(stack)
                         ELSE stack' = SetAt(stack, "create")
                    ELSE IF ParentMissing(GetGroupByPath(dstGroups, parent_path, what = "dst"))
                         THEN stack' = Append(SetAt(stack, "parent"),
                                              Frame(parent_path, "enter"))
                         ELSE stack' = SetAt(stack, "create")
    /\ UNCHANGED << srcVars, syncVars, dstGroups, dstProjects, run, pc, todoProjects,
                    groupCreateCalls, projectCreateCalls, created, examined,
                    absentAtExam, invoked, processed, afterError, prev, raced >>

\* dest_client.groups.create: GitLab refuses a path that is taken
GroupCreateRaises(groups, path, failed) == failed \/ path \in groups

\* lines 162-163 and 176-177: the create call of an invocation
MatCreate ==
    /\ pc = "groups"
    /\ stack # << >>
    /\ Top(stack).at = "create"
    /\ \E failed \in {FALSE, CanFail} :
         LET path == Top(stack).path IN
         /\ Inject(IF failed THEN 1 ELSE 0)
         /\ groupCreateCalls' = groupCreateCalls \cup {path}
         /\ IF GroupCreateRaises(dstGroups, path, failed)
            THEN /\ Raise
                 /\ UNCHANGED << dstGroups, created >>
            ELSE /\ dstGroups' = dstGroups \cup {path}
                 /\ created' = created \cup {path}
                 /\ stack' = Return(stack)
                 /\ UNCHANGED << logged, todoGroups >>
    /\ UNCHANGED << srcVars, syncVars, dstProjects, run, pc, todoProjects,
                    projectCreateCalls, examined, absentAtExam, invoked, processed,
                    afterError, prev, raced >>

\* between the lookup that found no group at the path (line 159 or 219) and the
\* create call (line 162 or 176), someone else, such as another run of the
\* program, creates the group on the destination
ConcurrentCreate ==
    /\ pc = "groups"
    /\ stack # << >>
    /\ Top(stack).at = "create"
    /\ Top(stack).path \notin dstGroups
    /\ CanFail
    /\ Inject(1)
    /\ dstGroups' = dstGroups \cup {Top(stack).path}
    /\ raced' = raced \cup {stack[1].path}
    /\ UNCHANGED << srcVars, syncVars, dstProjects, run, pc, todoGroups, stack,
                    todoProjects, groupCreateCalls, projectCreateCalls, created,
                    examined, absentAtExam, invoked, logged, processed, afterError,
                    prev >>

\* mirror_group_structure returns; main calls mirror_project_structure (line 74),
\* which lists the projects (lines 188-189)
GroupsDone ==
    /\ pc = "groups"
    /\ stack = << >>
    /\ todoGroups = {}
    /\ pc' = "projects"
    /\ todoProjects' = srcProjects
    /\ absentAtExam' = {}
    /\ invoked' = {}
    /\ afterError' = {}
    /\ raced' = {}
    /\ UNCHANGED << srcVars, syncVars, dstGroups, dstProjects, run, todoGroups, stack,
                    faults, runFaults, groupCreateCalls, projectCreateCalls, created,
                    examined, logged, processed, prev >>

(* ---------------------- mirror_project_structure ---------------------- *)

\* dest_client.projects.create with a name and a namespace_id and no path: GitLab
\* derives the path from the name, and refuses a path or a name that is taken in
\* the namespace
NewProject(group, src_project) ==
    [path |-> Append(group, src_project.name), name |-> src_project.name,
     desc |-> "mirrored"]

ProjectCreateRaises(projects, groups, group, src_project, failed) ==
    \/ failed
    \/ NewProject(group, src_project).path \in groups
    \/ \E q \in projects :
         /\ ParentPath(q.path) = group
         /\ \/ q.path = NewProject(group, src_project).path
            \/ q.name = src_project.name

\* a mutant of SkipCreating: the project that is found gets the description of a
\* mirrored one
SkipCreatingUpdates(projects, remote_project) ==
    { IF q.path = remote_project THEN [q EXCEPT !.desc = "mirrored"] ELSE q : q \in projects }

\* lines 204-206: a project found at the path is logged and left as it is
SkipCreating(projects, remote_project) == projects

\* lines 192-208: one iteration of mirror_project_structure's loop.  Nothing
\* catches what it raises: the exception leaves main.
\* what: "none", or the call that fails: "group" (line 196), "project" (line
\* 198), "create" (line 200)
MirrorProjectIter ==
    /\ pc = "projects"
    /\ \E src_project \in todoProjects,
          what \in {"none"} \cup (IF CanFail THEN {"group", "project", "create"} ELSE {}) :
         LET full_path == src_project.path
             group_path == ParentPath(full_path)
             group == GetGroupByPath(dstGroups, group_path, what = "group")
             remote_project == GetProjectByPath(dstProjects, full_path, what = "project")
         IN
         /\ Inject(IF what = "none" THEN 0 ELSE 1)
         /\ processed' = processed \cup {full_path}
         /\ todoProjects' = todoProjects \ {src_project}
         /\ IF full_path \in ignore
            THEN /\ what = "none"
                 /\ UNCHANGED << pc, dstProjects, projectCreateCalls >>
            ELSE IF remote_project # None
            THEN /\ what \in {"none", "group"}
                 /\ dstProjects' = SkipCreating(dstProjects, remote_project)
                 /\ UNCHANGED << pc, projectCreateCalls >>
            ELSE IF group = None
            THEN \* group.id raises AttributeError
                 /\ what # "create"
                 /\ pc' = "aborted"
                 /\ UNCHANGED << dstProjects, projectCreateCalls >>
            ELSE /\ projectCreateCalls' = projectCreateCalls \cup {full_path}
                 /\ IF ProjectCreateRaises(dstProjects, dstGroups, group, src_project,
                                           what = "create")
                    THEN /\ pc' = "aborted"
                         /\ UNCHANGED dstProjects
                    ELSE /\ dstProjects' = dstProjects \cup {NewProject(group, src_project)}
                         /\ UNCHANGED pc
    /\ UNCHANGED << srcVars, syncVars, dstGroups, run, todoGroups, stack,
                    groupCreateCalls, created, examined, absentAtExam, invoked, logged,
                    afterError, prev, raced >>

\* mirror_project_structure returns
ProjectsDone ==
    /\ pc = "projects"
    /\ todoProjects = {}
    /\ pc' = "dispatch"
    /\ UNCHANGED << srcVars, syncVars, dstGroups, dstProjects, run, todoGroups, stack,
                    todoProjects, faults, runFaults, topoHist, prev >>

(* ------------------------------ fan-out ------------------------------- *)

\* mp.cpu_count(): the processes of the pool
PoolSize == 2

\* a mutant of ReadyToDispatch: the fan-out does not wait for
\* mirror_project_structure
ReadyToDispatchEarly == pc \in {"projects", "dispatch"}

\* lines 72-85: pool.map is reached when mirror_project_structure has returned
ReadyToDispatch == pc = "dispatch"

\* a mutant of SyncRepoParams: the ignored projects are synced too
SyncRepoParamsAll(projects, ignore_project_paths) == { p.path : p \in projects }

\* lines 77-83: the projects that get a sync_repo call
SyncRepoParams(projects, ignore_project_paths) ==
    { p.path : p \in { q \in projects : q.path \notin ignore_project_paths } }

\* lines 76-85: the pool is made and pool.map hands every parameter to it
Dispatch ==
    /\ ReadyToDispatch
    /\ pc' = "sync"
    /\ task' = [p \in ProjectPaths |->
                  IF p \in SyncRepoParams(srcProjects, ignore) THEN "queued" ELSE "idle"]
    /\ UNCHANGED << srcVars, srcRefs, dstRefs, cache, localRefs, syncFault, clones,
                    cachedRuns, laterSyncs, refChanges, dstGroups, dstProjects, run, todoGroups,
                    stack, todoProjects, faults, runFaults, topoHist, prev >>

Running == { p \in ProjectPaths : task[p] = "running" }

\* a free process of the pool takes the next sync_repo call
SyncStart(p) ==
    /\ pc = "sync"
    /\ task[p] = "queued"
    /\ Cardinality(Running) < PoolSize
    /\ task' = [task EXCEPT ![p] = "running"]
    /\ UNCHANGED << srcVars, srcRefs, dstRefs, cache, localRefs, syncFault, clones,
                    cachedRuns, laterSyncs, refChanges, dstGroups, dstProjects, run, pc, todoGroups,
                    stack, todoProjects, faults, runFaults, topoHist, prev >>

(* ------------------------------ sync_repo ----------------------------- *)

\* a mutant of IsGitRepo: the cache is never recognised
IsGitRepoNever(c) == FALSE

\* is_git_repo: the clone directory holds a repository
IsGitRepo(c) == c # "none"

\* what a sync_repo call leaves: the cache entry, the refs of the clone and of
\* the destination repository, how it ended, the branch of line 99 it took and
\* whether it made a clone
Outcome(c, loc, dst, outcome, branch, cloned) ==
    [cache |-> c, local |-> loc, dst |-> dst, outcome |-> outcome,
     branch |-> branch, cloned |-> cloned]

\* a mutant of Push: the push without --tags
PushBranchesOnly(loc, dst) == dst \cup (loc \cap Branches)

\* git push mirror --tags "refs/remotes/origin/*:refs/heads/*": the branches and
\* the tags of the clone are created or updated on the destination; no ref of
\* the destination is deleted
Push(loc, dst) == dst \cup loc

\* origin.pull() then origin.fetch(tags=True): the branches, then the tags of the
\* source are created or updated in the clone; no ref of the clone is deleted
Pull(loc, src) == loc \cup (src \cap Branches)

FetchTags(loc, src) == loc \cup (src \cap Tags)

\* lines 100-107: pull, fetch the tags, push.  The push needs the remote
\* 'mirror' in the clone and the project on the destination
SyncCached(c, loc, src, dstExists, dst, what) ==
    IF what = "pull" THEN Outcome(c, loc, dst, "error", "cached", FALSE)
    ELSE IF what = "fetch" THEN Outcome(c, Pull(loc, src), dst, "error", "cached", FALSE)
    ELSE LET fetched == FetchTags(Pull(loc, src), src) IN
         IF c # "ready" \/ ~dstExists \/ what = "push"
         THEN Outcome(c, fetched, dst, "error", "cached", FALSE)
         ELSE Outcome(c, fetched, Push(fetched, dst), "ok", "cached", FALSE)

\* lines 109-115: clone, add the remote 'mirror', push
SyncUncached(c, loc, src, dstExists, dst, what) ==
    IF what = "clone" THEN Outcome(c, loc, dst, "error", "uncached", FALSE)
    ELSE IF what = "remote" THEN Outcome("cloned", src, dst, "error", "uncached", TRUE)
    ELSE IF ~dstExists \/ what = "push"
         THEN Outcome("ready", src, dst, "error", "uncached", TRUE)
         ELSE Outcome("ready", src, Push(src, dst), "ok", "uncached", TRUE)

\* lines 66-68 and 96: without --cachedir, cachedir is a TemporaryDirectory
\* object, not a path, and os.path.join(cachedir, ...) raises TypeError
ClonePathRaises(dir) == dir = "default"

\* lines 92-121: the body of sync_repo; every exception is caught and logged
SyncRepo(dir, c, loc, src, dstExists, dst, what) ==
    IF ClonePathRaises(dir) \/ what = "mkdir"
    THEN Outcome(c, loc, dst, "error", "none", FALSE)
    ELSE IF IsGitRepo(c)
         THEN SyncCached(c, loc, src, dstExists, dst, what)
         ELSE SyncUncached(c, loc, src, dstExists, dst, what)

\* the calls of a sync that may be made to fail
SyncSteps(dir, c) ==
    IF ClonePathRaises(dir) THEN {}
    ELSE IF IsGitRepo(c) THEN {"mkdir", "pull", "fetch", "push"}
    ELSE {"mkdir", "clone", "remote", "push"}

\* a mutant of AfterSyncError: the exception ends the pool, and the calls that
\* have not returned are lost
AfterSyncErrorStops(t) ==
    [p \in DOMAIN t |-> IF t[p] \in {"queued", "running"} THEN "error" ELSE t[p]]

\* lines 119-121: the exception of a call is caught in that call: the other
\* calls of the pool are as they were
AfterSyncError(t) == t

\* a sync_repo call runs to its end in its process
SyncFinish(p) ==
    /\ pc = "sync"
    /\ task[p] = "running"
    /\ \E what \in {"none"} \cup (IF CanFail THEN SyncSteps(cachedir, cache[p]) ELSE {}) :
         LET dstExists == p \in { q.path : q \in dstProjects }
             r == SyncRepo(cachedir, cache[p], localRefs[p], srcRefs[p], dstExists, dstRefs[p], what)
         IN
         /\ Inject(IF what = "none" THEN 0 ELSE 1)
         /\ cache' = [cache EXCEPT ![p] = r.cache]
         /\ localRefs' = [localRefs EXCEPT ![p] = r.local]
         /\ dstRefs' = [dstRefs EXCEPT ![p] = r.dst]
         /\ task' = IF r.outcome = "ok" THEN [task EXCEPT ![p] = "ok"]
                    ELSE AfterSyncError([task EXCEPT ![p] = "error"])
         /\ syncFault' = [syncFault EXCEPT ![p] = what]
         /\ clones' = [clones EXCEPT ![p] = IF r.cloned THEN @ + 1 ELSE @]
         /\ cachedRuns' = [cachedRuns EXCEPT ![p] =
                             IF r.branch = "cached" THEN @ + 1 ELSE @]
         /\ laterSyncs' = [laterSyncs EXCEPT ![p] =
                             IF clones[p] > 0 /\ r.branch # "none" THEN @ + 1 ELSE @]
    /\ UNCHANGED << srcVars, srcRefs, refChanges, dstGroups, dstProjects, run, pc,
                    todoGroups, stack, todoProjects, topoHist, prev >>

\* a mutant of AllReturned: pool.map returns once every call was handed to a
\* process
AllStarted(t) == \A p \in DOMAIN t : t[p] # "queued"

\* line 85: pool.map blocks until every call it was given has returned
AllReturned(t) == \A p \in DOMAIN t : t[p] \in {"idle", "ok", "error"}

\* line 85: pool.map returns when every call has returned; main ends
PoolDone ==
    /\ pc = "sync"
    /\ AllReturned(task)
    /\ pc' = "done"
    /\ UNCHANGED << srcVars, syncVars, dstGroups, dstProjects, run, todoGroups, stack,
                    todoProjects, faults, runFaults, topoHist, prev >>

(* --------------------------- between runs ----------------------------- *)

\* the program is run again, with the same arguments and --cachedir
StartRun ==
    /\ pc \in {"done", "aborted"}
    /\ run < MaxRuns
    /\ run' = run + 1
    /\ pc' = "groups"
    /\ todoGroups' = DescendantGroupsList(srcGroups)
    /\ stack' = << >>
    /\ todoProjects' = {}
    /\ task' = [p \in ProjectPaths |-> "idle"]
    /\ syncFault' = [p \in ProjectPaths |-> "none"]
    /\ runFaults' = 0
    /\ groupCreateCalls' = {}
    /\ projectCreateCalls' = {}
    /\ created' = {}
    /\ examined' = {}
    /\ absentAtExam' = {}
    /\ invoked' = {}
    /\ logged' = {}
    /\ processed' = {}
    /\ afterError' = {}
    /\ raced' = {}
    /\ prev' = [ended |-> pc, clean |-> pc = "done" /\ logged = {},
                groups |-> dstGroups, projects |-> dstProjects]
    /\ UNCHANGED << srcVars, srcRefs, dstRefs, cache, localRefs, clones, cachedRuns,
                    laterSyncs, refChanges, dstGroups, dstProjects, faults >>

\* between two runs a branch (not the checked-out one) or a tag is deleted on a
\* source repository that an earlier sync has cloned
SourceDeletesRef ==
    /\ pc \in {"done", "aborted"}
    /\ refChanges < MaxRefChanges
    /\ \E p \in { q.path : q \in srcProjects } :
         /\ IsGitRepo(cache[p])
         /\ \E r \in srcRefs[p] \ {DefaultBranch} :
           srcRefs' = [srcRefs EXCEPT ![p] = @ \ {r}]
    /\ refChanges' = refChanges + 1
    /\ UNCHANGED << srcVars, dstRefs, cache, localRefs, task, syncFault, clones,
                    cachedRuns, laterSyncs, dstGroups, dstProjects, run, pc, todoGroups, stack,
                    todoProjects, faults, runFaults, topoHist, prev >>

Next ==
    \/ MirrorGroupIter
    \/ MatEnter
    \/ MatCreate
    \/ ConcurrentCreate
    \/ GroupsDone
    \/ MirrorProjectIter
    \/ ProjectsDone
    \/ Dispatch
    \/ \E p \in ProjectPaths : SyncStart(p)
    \/ \E p \in ProjectPaths : SyncFinish(p)
    \/ PoolDone
    \/ StartRun
    \/ SourceDeletesRef

Spec == Init /\ [][Next]_vars

\* the pool: a free process takes a call that waits, a call that runs comes to
\* its end, and pool.map returns when all have
LiveSpec ==
    /\ Spec
    /\ WF_vars(PoolDone)
    /\ \A p \in ProjectPaths : WF_vars(SyncStart(p)) /\ WF_vars(SyncFinish(p))

(* ------------------------------ claims -------------------------------- *)

NonExcluded == { p.path : p \in srcProjects } \ ignore

PathsOf(projects) == { q.path : q \in projects }

TopologyOver == pc \in {"dispatch", "sync", "done", "aborted"}

StrictAncestors(path) == { SubSeq(path, 1, n) : n \in 1..(Len(path) - 1) }

\* C1: when a run of the two reconcilers ended without any failure, the next
\* run, with no error injected, calls no create and leaves the groups and the
\* projects of the destination as they were
C1_Idempotent ==
    (prev.clean /\ runFaults = 0) =>
        /\ groupCreateCalls = {}
        /\ projectCreateCalls = {}
        /\ dstGroups = prev.groups
        /\ dstProjects = prev.projects

\* C2: every group of the destination has all its strict ancestors on the
\* destination, in every state: a group is created only under its ancestors
C2_AncestorsFirst ==
    \A p \in dstGroups : StrictAncestors(p) \subseteq dstGroups

\* C2's case: the loop called the materializer on g/sub/deep alone, and the
\* recursion created g, g/sub and g/sub/deep
C2_Witness ==
    /\ pc = "groups"
    /\ invoked = {<<"g", "sub", "deep">>}
    /\ created = {<<"g">>, <<"g", "sub">>, <<"g", "sub", "deep">>}

\* C3: for an ignored project no create is called, no sync_repo call is queued
\* or run, and no clone is made, in any run
C3_ExclusionRespected ==
    \A p \in ignore :
        /\ p \notin projectCreateCalls
        /\ task[p] = "idle"
        /\ cache[p] = "none"
        /\ clones[p] = 0
        /\ cachedRuns[p] = 0

\* C3's case: a run is over that created the group of an ignored project, and
\* created and synced another project below the same root
C3_Witness ==
    /\ pc = "done"
    /\ \E p \in ignore : \E q \in NonExcluded :
         /\ ParentPath(p) \in created
         /\ q \in projectCreateCalls
         /\ task[q] = "ok"

\* the scenario of C4, run against an empty destination
C4_Scenario ==
    /\ srcGroups = {<<"g", "sub">>, <<"g", "excluded">>}
    /\ srcProjects = {[path |-> <<"g", "sub", "p1">>, name |-> "p1"],
                      [path |-> <<"g", "excluded", "p2">>, name |-> "p2"]}
    /\ ignore = {<<"g", "excluded", "p2">>}
    /\ run = 1
    /\ prev.groups = {}
    /\ prev.projects = {}

\* C4 as claimed: in the scenario the topology of a run with no error ends with
\* the groups g and g/sub and the project g/sub/p1, and with neither g/excluded
\* nor g/excluded/p2
C4_ExcludedGroupNotCreated ==
    (C4_Scenario /\ pc = "dispatch" /\ runFaults = 0 /\ logged = {}) =>
        /\ dstGroups = {<<"g">>, <<"g", "sub">>}
        /\ PathsOf(dstProjects) = {<<"g", "sub", "p1">>}

\* C4 as amended: in the scenario the topology of a run with no error ends with
\* the groups g, g/sub and g/excluded, with the project g/sub/p1, and with no
\* project g/excluded/p2: no create was called for it
C4_AllGroupsCreated ==
    (C4_Scenario /\ pc = "dispatch" /\ runFaults = 0 /\ logged = {}) =>
        /\ dstGroups = {<<"g">>, <<"g", "sub">>, <<"g", "excluded">>}
        /\ PathsOf(dstProjects) = {<<"g", "sub", "p1">>}
        /\ projectCreateCalls = {<<"g", "sub", "p1">>}

\* C4's case: the scenario's run has made its topology, g/excluded included
C4_Witness ==
    /\ C4_Scenario
    /\ pc = "dispatch"
    /\ runFaults = 0
    /\ logged = {}
    /\ <<"g", "excluded">> \in created

C6_ProjectErrorsCaught ==
    TopologyOver => (pc # "aborted" /\ NonExcluded \subseteq processed)

\* C7: in mirror_group_structure no group of the listing is dropped from the loop,
\* whatever failed before it: each is waiting or examined, each one found absent
\* had the materializer called on it, and the loop ends with all examined
C7_GroupErrorsConfined ==
    /\ pc = "groups" =>
         /\ todoGroups \cup examined = DescendantGroupsList(srcGroups)
         /\ absentAtExam \subseteq invoked
    /\ pc # "groups" => examined = DescendantGroupsList(srcGroups)

\* C7's case: after an error was logged for one path, another was examined,
\* found absent and created
C7_Witness ==
    /\ pc = "groups"
    /\ logged # {}
    /\ \E g \in afterError : g \in absentAtExam /\ g \in created /\ g \notin logged

\* C8: a sync_repo call is queued, running or over only when both loops of the
\* topology are over, and the projects are looked at only when the groups are
C8_PhaseOrder ==
    /\ (\E p \in ProjectPaths : task[p] # "idle") =>
          /\ pc \in {"sync", "done"}
          /\ todoGroups = {}
          /\ stack = << >>
          /\ todoProjects = {}
          /\ processed = PathsOf(srcProjects)
    /\ processed # {} =>
          (todoGroups = {} /\ stack = << >> /\ examined = DescendantGroupsList(srcGroups))

\* C8's case: a sync runs in a run that created a group and a project
C8_Witness ==
    /\ pc = "sync"
    /\ created # {}
    /\ projectCreateCalls # {}
    /\ \E p \in ProjectPaths : task[p] = "running"

\* C9 as claimed: while the fan-out runs, a sync that ended ok has left the
\* destination with exactly the branch names and the tag names of the source
C9_MirrorExact ==
    \A p \in ProjectPaths :
        (pc = "sync" /\ task[p] = "ok") =>
            /\ dstRefs[p] \cap Branches = srcRefs[p] \cap Branches
            /\ dstRefs[p] \cap Tags = srcRefs[p] \cap Tags

\* C9 as amended: a sync that ended ok has left on the destination every branch
\* name and every tag name of the source (none missing)
C9_MirrorNoneMissing ==
    \A p \in ProjectPaths :
        (pc = "sync" /\ task[p] = "ok") =>
            /\ srcRefs[p] \cap Branches \subseteq dstRefs[p]
            /\ srcRefs[p] \cap Tags \subseteq dstRefs[p]

\* C9's case: a second sync ended ok after the source deleted a ref, and the
\* destination still has that ref
C9_Witness ==
    \E p \in ProjectPaths :
        /\ pc = "sync"
        /\ task[p] = "ok"
        /\ cachedRuns[p] > 0
        /\ srcRefs[p] # SourceRefs
        /\ SourceRefs \subseteq dstRefs[p]

\* C10: a project is cloned at most once; once it is cloned its cache entry is a
\* repository, and every sync made of it from then on took the cached branch
C10_CacheReuse ==
    \A p \in ProjectPaths :
        /\ clones[p] <= 1
        /\ clones[p] > 0 => IsGitRepo(cache[p])
        /\ cachedRuns[p] = laterSyncs[p]
        /\ cachedRuns[p] > 0 => clones[p] > 0

\* C10's case: the second run synced a project from its cache
C10_Witness ==
    \E p \in ProjectPaths :
        /\ run = 2
        /\ task[p] = "ok"
        /\ clones[p] = 1
        /\ cachedRuns[p] = 1

\* C11 as claimed: each recursive invocation is on a shorter path than the one
\* that made it, so the invocations in progress are never more than the segments
\* of the path the loop called the materializer on
C11_DepthWithinPath ==
    stack # << >> => Len(stack) <= Len(stack[1].path)

\* C12 as claimed: a lookup that failed never leads to a create: the loop calls
\* the materializer only on a group that was absent from the destination, and a
\* project create is called only for a project that was absent from it
C12_LookupFailureNeverCreates ==
    /\ invoked \subseteq absentAtExam
    /\ projectCreateCalls \cap PathsOf(prev.projects) = {}

\* C13 as claimed: when someone else created a group between the lookup and the
\* create call, the call of the materializer that met it logs no error, and when
\* it is over the path it was called on is on the destination
C13_RaceIsSuccess ==
    \A p \in raced :
        /\ p \notin logged
        /\ stack = << >> => p \in dstGroups

\* C14: when main is over, every sync_repo call that was handed to the pool has
\* ended, ok or in error; and once the calls are handed to the pool, main does
\* come to its end, whatever number of them ended in error
C14_FanOutCompletes ==
    /\ [](pc = "done" => \A p \in SyncRepoParams(srcProjects, ignore) :
                            task[p] \in {"ok", "error"})
    /\ (pc = "sync") ~> (pc = "done")

\* C14's case: main is over and every one of two sync_repo calls ended in error
C14_Witness ==
    /\ pc = "done"
    /\ Cardinality(NonExcluded) = 2
    /\ \A p \in NonExcluded : task[p] = "error"

\* C15 as claimed: an invocation of the materializer on a path that was on the
\* destination when it was called never comes to a create call
C15_NoCreateOnExisting ==
    \A i \in DOMAIN stack : stack[i].existed => stack[i].at # "create"

\* C16 as claimed: when mirror_group_structure has ended with no error logged
\* and none injected, the group of every project that is not ignored is on the
\* destination
C16_OwningGroupExists ==
    (pc = "projects" /\ logged = {} /\ runFaults = 0) =>
        \A p \in NonExcluded : ParentPath(p) \in dstGroups

\* C17 as claimed: when mirror_group_structure has ended with no error logged
\* and none injected, every descendant group of the source root is on the
\* destination
C17_AllGroupsMirrored ==
    (pc # "groups" /\ logged = {} /\ runFaults = 0) => srcGroups \subseteq dstGroups

\* C18: no step removes or changes a group or a project of the destination (a
\* project keeps its path, name and description), and none changes the groups
\* or the projects of the source
C18_CreateOnly ==
    [][ /\ dstGroups \subseteq dstGroups'
        /\ dstProjects \subseteq dstProjects'
        /\ srcGroups' = srcGroups
        /\ srcProjects' = srcProjects ]_vars

\* C18's case: a second run created a group and skipped a project that was on
\* the destination before the first run, which is as it was
C18_Witness ==
    /\ run = 2
    /\ pc = "dispatch"
    /\ created # {}
    /\ \E q \in dstProjects :
         /\ q.desc = "orig"
         /\ q.path \in processed \ ignore

\* C19 as claimed: a source project whose create succeeded is on the
\* destination at its own path
C19_CreatedAtSourcePath ==
    \A p \in srcProjects :
        NewProject(ParentPath(p.path), p) \in dstProjects => p.path \in PathsOf(dstProjects)

\* C20 as claimed: a cache entry that is a repository has the remote 'mirror'
C20_CachedHaveRemote ==
    \A p \in ProjectPaths : IsGitRepo(cache[p]) => cache[p] = "ready"

=============================================================================
